---- MODULE Spec2Model ----
(***************************************************************************)
(* A model of gnome-clipboard-save.py: the configuration loader, the       *)
(* filename deriver (sanitize_filename, create_filename), the collision    *)
(* loop and the write step of save_clipboard, and main's exit codes.       *)
(*                                                                         *)
(* A Python str is a sequence of one-character strings.  A path below the  *)
(* save directory is a record [parent, name]: parent is the sequence of    *)
(* directory names leading from the save directory to the file (<<>> is    *)
(* the save directory itself) and name is the last component.              *)
(***************************************************************************)
EXTENDS Integers, Sequences, FiniteSets, TLC

VARIABLES
    files,      \* regular files below the save directory: path -> content
    dirs,       \* directories below the save directory (a set of parents)
    now,        \* the wall clock, in seconds after midnight of Today
    config,     \* ClipboardSaver.config of the invocations
    proc,       \* per invocation: position, arguments and locals of main/save_clipboard
    runs,       \* number of invocations started so far
    fn_in,      \* filename deriver under test: its inputs
    fn_out,     \* filename deriver under test: its outputs
    cfg_file,   \* configuration loader under test: what is at config_path
    cfg_out     \* configuration loader under test: what load_config did

vars == <<files, dirs, now, config, proc, runs, fn_in, fn_out, cfg_file, cfg_out>>

-----------------------------------------------------------------------------
(* Bounds of the model.                                                    *)

MaxTextLen == 2      \* longest clipboard text of the deriver's input set
MaxRuns == 2         \* invocations per behaviour

-----------------------------------------------------------------------------
(* Python str helpers.                                                     *)

None == "None"

Digit == <<"0", "1", "2", "3", "4", "5", "6", "7", "8", "9">>

AlnumChars ==
    {"a", "b", "c", "e", "h", "i", "l", "m", "o", "p", "s", "t", "u", "x", "y",
     "T", "X"} \cup {Digit[k] : k \in 1..10}

Whitespace == {" ", "\t", "\n"}

Take(s, n) == SubSeq(s, 1, IF n < Len(s) THEN n ELSE Len(s))

RECURSIVE LStrip(_)
LStrip(s) ==
    IF s # <<>> /\ Head(s) \in Whitespace THEN LStrip(Tail(s)) ELSE s

RECURSIVE RStrip(_)
RStrip(s) ==
    IF s # <<>> /\ s[Len(s)] \in Whitespace
    THEN RStrip(SubSeq(s, 1, Len(s) - 1))
    ELSE s

\* str.strip()
Strip(s) == RStrip(LStrip(s))

\* str.lower(), on the letters of the model's alphabet
LowerChar(c) == IF c = "T" THEN "t" ELSE IF c = "X" THEN "x" ELSE c

Lower(s) == [k \in 1..Len(s) |-> LowerChar(s[k])]

\* str.endswith
EndsWith(s, suf) ==
    /\ Len(suf) <= Len(s)
    /\ SubSeq(s, Len(s) - Len(suf) + 1, Len(s)) = suf

\* str.rfind: the last index of c in s, 0 when absent (1-based)
RFind(s, c) ==
    LET hits == {k \in 1..Len(s) : s[k] = c}
    IN  IF hits = {} THEN 0 ELSE CHOOSE k \in hits : \A j \in hits : j <= k

\* str(n) of a natural number
RECURSIVE Dec(_)
Dec(n) == IF n < 10 THEN <<Digit[n + 1]>> ELSE Dec(n \div 10) \o <<Digit[(n % 10) + 1]>>

\* f"{n:02d}": decimal, zero-padded to a minimum width of two
Fmt02d(n) == IF n < 10 THEN <<"0">> \o Dec(n) ELSE Dec(n)

DotTxt == <<".", "t", "x", "t">>

Empty == <<"e", "m", "p", "t", "y">>

-----------------------------------------------------------------------------
(* Filename Deriver: sanitize_filename and create_filename.                *)

\* one character of sanitize_filename's generator expression
SanitizeChar(c) ==
    IF c \in AlnumChars \/ c \in {" ", "-", "_", "."} THEN c ELSE "_"

sanitize_filename_NoStrip(text, max_len) ==
    Take([k \in 1..Len(text) |-> SanitizeChar(text[k])], max_len)

sanitize_filename(text, max_len) ==
    Strip(Take([k \in 1..Len(text) |-> SanitizeChar(text[k])], max_len))

\* the clock: the date does not change within the model's window
Today == <<"2", "0", "2", "4", "-", "0", "1", "-", "1", "5">>

TodayCompact == <<"2", "0", "2", "4", "0", "1", "1", "5">>

\* Unix time of Today's midnight
EpochMidnight == 19737 * 86400

\* strftime("%H-%M-%S") and strftime("%H%M%S") of t seconds after midnight
Hour(t) == t \div 3600

Minute(t) == (t % 3600) \div 60

Second(t) == t % 60

StrfTime(t) == Fmt02d(Hour(t)) \o <<"-">> \o Fmt02d(Minute(t)) \o <<"-">> \o Fmt02d(Second(t))

StrfTimeCompact(t) == Fmt02d(Hour(t)) \o Fmt02d(Minute(t)) \o Fmt02d(Second(t))

StrfDatetime(t) == TodayCompact \o <<"_">> \o StrfTimeCompact(t)

KnownVars == {"date", "time", "datetime", "timestamp", "text", "text_full"}

\* template_vars; clock is the four successive readings of datetime.now()
TemplateVars(sanitized_text, clock) ==
    [date |-> Today,
     time |-> StrfTime(clock[2]),
     datetime |-> StrfDatetime(clock[3]),
     timestamp |-> Dec(EpochMidnight + clock[4]),
     text |-> IF sanitized_text # <<>> THEN sanitized_text ELSE Empty,
     text_full |-> IF sanitized_text # <<>> THEN sanitized_text ELSE Empty]

(* str.format over template_vars.  A template is the sequence of parts that  *)
(* the format-string parser yields: [literal, field_name, format_spec],    *)
(* field_name = None for a trailing literal.  A format_spec is             *)
(* [precision, type]: precision -1 when absent, type "" or a type code.    *)

NoSpec == [precision |-> -1, type |-> ""]

\* str.__format__(value, format_spec)
FormatValue(value, spec) ==
    IF spec.type \notin {"", "s"}
    THEN [exc |-> "ValueError", val |-> <<>>]
    ELSE [exc |-> None,
          val |-> IF spec.precision >= 0 THEN Take(value, spec.precision) ELSE value]

\* the lookup of a replacement field among the keyword arguments
GetField(field_name, template_vars) ==
    IF field_name \in {"", "0"}
    THEN [exc |-> "IndexError", val |-> <<>>]
    ELSE IF field_name \in DOMAIN template_vars
    THEN [exc |-> None, val |-> template_vars[field_name]]
    ELSE [exc |-> "KeyError", val |-> <<>>]

FormatPart(part, template_vars) ==
    IF part.field_name = None
    THEN [exc |-> None, val |-> part.literal]
    ELSE LET got == GetField(part.field_name, template_vars)
         IN  IF got.exc # None
             THEN got
             ELSE LET f == FormatValue(got.val, part.format_spec)
                  IN  IF f.exc # None THEN f ELSE [exc |-> None, val |-> part.literal \o f.val]

\* parts are rendered left to right; the first failure is the one raised
RECURSIVE Format(_, _)
Format(template, template_vars) ==
    IF template = <<>>
    THEN [exc |-> None, val |-> <<>>]
    ELSE LET head == FormatPart(Head(template), template_vars)
         IN  IF head.exc # None
             THEN head
             ELSE LET rest == Format(Tail(template), template_vars)
                  IN  IF rest.exc # None THEN rest ELSE [exc |-> None, val |-> head.val \o rest.val]

FallbackName(template_vars) == <<"c", "l", "i", "p", "_">> \o template_vars["datetime"] \o DotTxt

\* which failures of the substitution create_filename recovers from
Recovered(exc) == exc = "KeyError"

create_filename(cfg, text, clock) ==
    LET sanitized_text == sanitize_filename(text, cfg.max_filename_length)
        template_vars == TemplateVars(sanitized_text, clock)
        r == Format(cfg.file_template, template_vars)
    IN  IF r.exc = None
        THEN [exc |-> None, val |-> r.val]
        ELSE IF Recovered(r.exc)
        THEN [exc |-> None, val |-> FallbackName(template_vars)]
        ELSE [exc |-> r.exc, val |-> <<>>]

-----------------------------------------------------------------------------
(* The filename deriver on its own: every input of a bounded set, and one  *)
(* call of create_filename on it.                                          *)

DefaultMaxFilenameLength == 50

TextChars == {"a", " ", "/", "\n"}

Texts == UNION {[1..k -> TextChars] : k \in 0..MaxTextLen} \cup {Empty}

MaxFilenameLengths == {1, DefaultMaxFilenameLength}

FieldNames == {"time", "datetime", "timestamp", "text", "foo", "0"}

FormatSpecs == {NoSpec, [precision |-> 1, type |-> ""], [precision |-> -1, type |-> "d"]}

Parts ==
    [literal : {<<>>}, field_name : FieldNames, format_spec : FormatSpecs]
    \cup {[literal |-> DotTxt, field_name |-> None, format_spec |-> NoSpec]}

Templates == {<<p>> : p \in Parts} \cup {<<p, q>> : p \in Parts, q \in Parts}

\* four successive readings of the clock: 00:00:00 and 00:59:59
ClockReadings ==
    {c \in [1..4 -> {0, 3599}] : \A k \in 1..3 : c[k] <= c[k + 1]}

IdleFiles == [p \in {} |-> <<>>]

IdleConfig == [file_template |-> <<>>, max_filename_length |-> DefaultMaxFilenameLength,
               notifications |-> TRUE]

InitFilename ==
    /\ fn_in \in [text : Texts,
                  cfg : [file_template : Templates,
                         max_filename_length : MaxFilenameLengths,
                         notifications : {TRUE}],
                  clock : ClockReadings]
    /\ fn_out = [called |-> FALSE]
    /\ files = IdleFiles /\ dirs = {} /\ now = 0 /\ config = IdleConfig
    /\ proc = <<>> /\ runs = 0
    /\ cfg_file = [kind |-> "missing", value |-> <<>>] /\ cfg_out = [called |-> FALSE]

\* create_filename(text), with what it computes on the way
CreateFilename ==
    /\ ~fn_out.called
    /\ LET sanitized_text == sanitize_filename(fn_in.text, fn_in.cfg.max_filename_length)
       IN  fn_out' = [called |-> TRUE,
                      sanitized |-> sanitized_text,
                      template_vars |-> TemplateVars(sanitized_text, fn_in.clock),
                      result |-> create_filename(fn_in.cfg, fn_in.text, fn_in.clock)]
    /\ UNCHANGED <<files, dirs, now, config, proc, runs, fn_in, cfg_file, cfg_out>>

NextFilename == CreateFilename

SpecFilename == InitFilename /\ [][NextFilename]_vars

Allowed == AlnumChars \cup {" ", "-", "_", "."}

\* the input with every character outside the allow-set replaced by underscore
Replaced(text) == [k \in 1..Len(text) |-> IF text[k] \in Allowed THEN text[k] ELSE "_"]

NoOuterWhitespace(s) == s = <<>> \/ (s[1] \notin Whitespace /\ s[Len(s)] \notin Whitespace)

IsSlice(s, t) == \E off \in 0..Len(t) : off + Len(s) <= Len(t) /\ s = SubSeq(t, off + 1, off + Len(s))

\* C8 as stated: sanitize_filename returns at most max_filename_length
\* characters of the allow-set, without leading or trailing whitespace, and
\* returns "empty" exactly when the truncated and stripped result is empty.
C8_SanitizeOriginal ==
    fn_out.called =>
        LET s == fn_out.sanitized
        IN  /\ Len(s) <= fn_in.cfg.max_filename_length
            /\ \A k \in 1..Len(s) : s[k] \in Allowed
            /\ NoOuterWhitespace(s)
            /\ (s = Empty) <=>
               (Strip(Take(Replaced(fn_in.text), fn_in.cfg.max_filename_length)) = <<>>)

\* C8 amended: sanitize_filename returns at most max_filename_length
\* characters, all of the allow-set, a slice of the input with the other
\* characters replaced by underscore, without leading or trailing whitespace,
\* and returns the empty string when nothing is left; create_filename then
\* puts "empty" for text and text_full, which are never empty and equal the
\* sanitized text whenever that is not empty.
C8_SanitizeAmended ==
    fn_out.called =>
        LET s == fn_out.sanitized
            tv == fn_out.template_vars
        IN  /\ Len(s) <= fn_in.cfg.max_filename_length
            /\ \A k \in 1..Len(s) : s[k] \in Allowed
            /\ NoOuterWhitespace(s)
            /\ IsSlice(s, Replaced(fn_in.text))
            /\ (s = <<>>) <=>
               (Strip(Take(Replaced(fn_in.text), fn_in.cfg.max_filename_length)) = <<>>)
            /\ tv.text # <<>>
            /\ s = <<>> => tv.text = Empty
            /\ s # <<>> => tv.text = s
            /\ tv.text_full = tv.text

\* an input that is not empty but of which truncation and strip leave nothing
C8_Witness ==
    /\ fn_out.called
    /\ fn_in.text # <<>>
    /\ \E k \in 1..Len(fn_in.text) : fn_in.text[k] \in AlnumChars
    /\ fn_out.sanitized = <<>>
    /\ fn_out.template_vars.text = Empty

NamesUnknownVariable(template) ==
    \E k \in 1..Len(template) : template[k].field_name \notin KnownVars \cup {None, "", "0"}

OnlyKnownVariables(template) ==
    \A k \in 1..Len(template) : template[k].field_name \in KnownVars \cup {None}

ValidSpecs(template) ==
    \A k \in 1..Len(template) : template[k].format_spec.type \in {"", "s"}

\* the template with each placeholder replaced by its (formatted) value
RECURSIVE Substituted(_, _)
Substituted(template, tv) ==
    IF template = <<>>
    THEN <<>>
    ELSE LET p == Head(template)
             v == IF p.field_name = None THEN <<>> ELSE tv[p.field_name]
             f == IF p.format_spec.precision >= 0 /\ Len(v) > p.format_spec.precision
                  THEN SubSeq(v, 1, p.format_spec.precision)
                  ELSE v
         IN  p.literal \o f \o Substituted(Tail(template), tv)

\* C5: a template that references a variable name outside the recognised
\* set yields exactly clip_<datetime>.txt and raises nothing; a template of
\* recognised variables yields the template with each placeholder replaced.
C5_TemplateFallback ==
    fn_out.called =>
        LET t == fn_in.cfg.file_template
            r == fn_out.result
        IN  /\ NamesUnknownVariable(t) =>
                /\ r.exc = None
                /\ r.val = <<"c", "l", "i", "p", "_">> \o TodayCompact \o <<"_">>
                           \o StrfTimeCompact(fn_in.clock[3]) \o DotTxt
            /\ (OnlyKnownVariables(t) /\ ValidSpecs(t)) =>
                /\ r.exc = None
                /\ r.val = Substituted(t, fn_out.template_vars)

-----------------------------------------------------------------------------
(* Config Loader: load_config.  A JSON value is kept as its JSON text.     *)

DefaultKeys ==
    {"save_dir", "file_template", "max_filename_length", "notifications", "log_level",
     "hotkeys"}

default_config ==
    [save_dir |-> "\"~/Documents/clipboard_saves\"",
     file_template |-> "\"clip_{date}_{time}_{text:.15}.txt\"",
     max_filename_length |-> "50",
     notifications |-> "true",
     log_level |-> "\"INFO\"",
     hotkeys |-> "{\"quick_save\": \"Ctrl+Alt+S\", \"custom_save\": \"Ctrl+Alt+F\"}"]

\* dict.update(other) for a mapping: the other's values win, key by key
DictUpdate_DefaultsWin(d, other) ==
    [k \in DOMAIN d \cup DOMAIN other |-> IF k \in DOMAIN d THEN d[k] ELSE other[k]]

DictUpdate(d, other) ==
    [k \in DOMAIN d \cup DOMAIN other |-> IF k \in DOMAIN other THEN other[k] ELSE d[k]]

\* dict.update(other) for a sequence: each element must be a key/value pair;
\* the pairs before the first element that is none are already stored
RECURSIVE DictUpdateSeq(_, _)
DictUpdateSeq(d, elems) ==
    IF elems = <<>>
    THEN [exc |-> None, dict |-> d]
    ELSE IF Head(elems).pair
    THEN DictUpdateSeq(DictUpdate(d, [k \in {Head(elems).key} |-> Head(elems).val]),
                       Tail(elems))
    ELSE [exc |-> "ValueError", dict |-> d]

\* the body of the try block: open, json.load, default_config.update
LoadUserConfig(file) ==
    CASE file.kind = "unreadable" -> [exc |-> "OSError", dict |-> default_config]
      [] file.kind = "malformed" -> [exc |-> "JSONDecodeError", dict |-> default_config]
      [] file.kind = "object" -> [exc |-> None, dict |-> DictUpdate(default_config, file.value)]
      [] file.kind = "array" -> DictUpdateSeq(default_config, file.value)
      [] file.kind = "scalar" -> [exc |-> "TypeError", dict |-> default_config]

\* except Exception
CaughtByLoadConfig(exc) ==
    exc \in {"OSError", "JSONDecodeError", "TypeError", "ValueError"}

load_config(file) ==
    IF file.kind = "missing"
    THEN [raised |-> None, config |-> default_config]
    ELSE LET r == LoadUserConfig(file)
         IN  IF r.exc = None \/ CaughtByLoadConfig(r.exc)
             THEN [raised |-> None, config |-> r.dict]
             ELSE [raised |-> r.exc, config |-> r.dict]

FileKeys == DefaultKeys \cup {"_comment"}

FileValues == {"false", "7"}

JsonObjects == UNION {[S -> FileValues] : S \in SUBSET FileKeys}

JsonElements ==
    [pair : {TRUE}, key : {"notifications", "_comment"}, val : FileValues]
    \cup {[pair |-> FALSE, key |-> "", val |-> ""]}

JsonArrays == {<<>>} \cup {<<e>> : e \in JsonElements} \cup {<<e, f>> : e \in JsonElements, f \in JsonElements}

\* what may be at config_path: nothing, a file that cannot be opened, a file
\* that is not JSON, a JSON number/boolean/null, a JSON object, a JSON array
IsConfigFile(f) ==
    \/ f \in [kind : {"missing", "unreadable", "malformed", "scalar"}, value : {<<>>}]
    \/ f \in [kind : {"object"}, value : JsonObjects]
    \/ f \in [kind : {"array"}, value : JsonArrays]

InitConfigLoader ==
    /\ IsConfigFile(cfg_file)
    /\ cfg_out = [called |-> FALSE]
    /\ fn_in = [called |-> FALSE] /\ fn_out = [called |-> FALSE]
    /\ files = IdleFiles /\ dirs = {} /\ now = 0 /\ config = IdleConfig
    /\ proc = <<>> /\ runs = 0

\* ClipboardSaver.__init__'s call of load_config
LoadConfig ==
    /\ ~cfg_out.called
    /\ LET r == load_config(cfg_file)
       IN  cfg_out' = [called |-> TRUE, raised |-> r.raised, config |-> r.config]
    /\ UNCHANGED <<files, dirs, now, config, proc, runs, fn_in, fn_out, cfg_file>>

NextConfigLoader == LoadConfig

SpecConfig == InitConfigLoader /\ [][NextConfigLoader]_vars

-----------------------------------------------------------------------------
(* pathlib: save_dir / filename, Path.parent, Path.stem, Path.suffix.      *)

\* the components of a relative path, empty and "." components dropped
RECURSIVE SplitPath(_)
SplitPath(s) ==
    LET cut == CHOOSE k \in 1..(Len(s) + 1) :
                   /\ k = Len(s) + 1 \/ s[k] = "/"
                   /\ \A j \in 1..(k - 1) : s[j] # "/"
        first == SubSeq(s, 1, cut - 1)
        rest == IF cut >= Len(s) THEN <<>> ELSE SplitPath(SubSeq(s, cut + 1, Len(s)))
    IN  IF s = <<>>
        THEN <<>>
        ELSE IF first = <<>> \/ first = <<".">> THEN rest ELSE <<first>> \o rest

\* self.save_dir / filename, for a relative filename with a last component
PathJoin(filename) ==
    LET parts == SplitPath(filename)
    IN  [parent |-> SubSeq(parts, 1, Len(parts) - 1), name |-> parts[Len(parts)]]

\* Path.suffix: from the last dot, unless that dot is first or last in the name
Suffix(path) ==
    LET i == RFind(path.name, ".")
    IN  IF 1 < i /\ i < Len(path.name) THEN SubSeq(path.name, i, Len(path.name)) ELSE <<>>

\* Path.stem
Stem(path) == SubSeq(path.name, 1, Len(path.name) - Len(Suffix(path)))

NoPath == [parent |-> <<>>, name |-> <<>>]

\* Path.exists(): a file or a directory is there
Exists(path) == path \in DOMAIN files \/ (path.parent \o <<path.name>>) \in dirs

\* the directory the path lies in exists (the save directory always does)
ParentExists(path) == path.parent = <<>> \/ path.parent \in dirs

\* a write of data at offset 0 of a file holding old
WriteAt0(old, data) == data \o SubSeq(old, Len(data) + 1, Len(old))

-----------------------------------------------------------------------------
(* save_clipboard's helpers.                                               *)

PyNone == <<"None">>

IsBlank_NoStrip(text) == text = <<>>

\* not text or not text.strip()
IsBlank(text) == text = <<>> \/ Strip(text) = <<>>

\* if not filename.lower().endswith('.txt'): filename += '.txt'
EnsureTxt(filename) == IF EndsWith(Lower(filename), DotTxt) THEN filename ELSE filename \o DotTxt

\* show_filename_dialog's return value for zenity's return code and output
DialogResult(returncode, stdout) ==
    IF returncode = 0 /\ Strip(stdout) # <<>> THEN EnsureTxt(Strip(stdout)) ELSE PyNone

ContinueLoop_OriginalOnly(original_path, file_path) == Exists(original_path) /\ file_path = original_path

\* while file_path.exists()
ContinueLoop(original_path, file_path) == Exists(file_path)

NextCandidate_FromCurrent(original_path, file_path, counter) ==
    [parent |-> file_path.parent,
     name |-> Stem(file_path) \o <<"_">> \o Fmt02d(counter) \o Suffix(file_path)]

\* original_path.parent / f"{stem}_{counter:02d}{suffix}"
NextCandidate(original_path, file_path, counter) ==
    [parent |-> original_path.parent,
     name |-> Stem(original_path) \o <<"_">> \o Fmt02d(counter) \o Suffix(original_path)]

NextCounter_Stuck(counter) == counter

\* counter += 1
NextCounter(counter) == counter + 1

OpenIsExclusive_Yes == TRUE

\* open(file_path, 'w') creates or truncates: it never refuses an existing file
OpenIsExclusive == FALSE

\* show_info's example_vars
ExampleVars ==
    [date |-> Today,
     time |-> <<"1", "4", "-", "3", "0", "-", "0", "5">>,
     datetime |-> <<"2", "0", "2", "4", "0", "1", "1", "5", "_", "1", "4", "3", "0", "0", "5">>,
     timestamp |-> <<"1", "7", "0", "5", "3", "3", "2", "6", "0", "5">>,
     text |-> <<"e", "x", "a", "m", "p", "l", "e", "_", "t", "e", "x", "t">>,
     text_full |-> <<"e", "x", "a", "m", "p", "l", "e", "_", "t", "e", "x", "t">>]

\* exit status of an interpreter that ends on an uncaught KeyboardInterrupt:
\* 1 before CPython 3.8, death by SIGINT (130 to a shell) since
UncaughtInterruptStatus == {1, 130}

-----------------------------------------------------------------------------
(* The invocations: main and save_clipboard, one step per system call of   *)
(* the collision loop and the write.                                       *)

Procs == {1, 2}

Old == <<"o", "l", "d">>

NameA == <<"a">>

ATxt == [parent |-> <<>>, name |-> <<"a", ".", "t", "x", "t">>]

A01Txt == [parent |-> <<>>, name |-> <<"a", "_", "0", "1", ".", "t", "x", "t">>]

A02Txt == [parent |-> <<>>, name |-> <<"a", "_", "0", "2", ".", "t", "x", "t">>]

\* --filename values: a, a.TXT, s/a, and the empty string
CustomNames == {NameA, <<"a", ".", "T", "X", "T">>, <<"s", "/", "a">>, <<>>}

\* what the filename dialog prints when confirmed
DialogOutputs == {<<"a", "\n">>, <<" ", "\n">>, <<"s", "/", "a", "\n">>}

\* clipboard contents
ClipTexts == {<<>>, <<" ", "\n">>, <<"h", "i">>}

\* clipboard contents of two invocations at the same time
ConcurrentTexts == ClipTexts \cup {<<"h", "o">>}

\* the seconds of the clock
ClockWindow == {0, 1}

\* file_template values: c_{time}_{text:.1}.txt, {foo}.txt, {text:d}, s/{text}.txt
TemplateQuick ==
    <<[literal |-> <<"c", "_">>, field_name |-> "time", format_spec |-> NoSpec],
      [literal |-> <<"_">>, field_name |-> "text", format_spec |-> [precision |-> 1, type |-> ""]],
      [literal |-> DotTxt, field_name |-> None, format_spec |-> NoSpec]>>

TemplateUnknown ==
    <<[literal |-> <<>>, field_name |-> "foo", format_spec |-> NoSpec],
      [literal |-> DotTxt, field_name |-> None, format_spec |-> NoSpec]>>

TemplateBadSpec ==
    <<[literal |-> <<>>, field_name |-> "text", format_spec |-> [precision |-> -1, type |-> "d"]]>>

TemplateSubdir ==
    <<[literal |-> <<"s", "/">>, field_name |-> "text", format_spec |-> NoSpec],
      [literal |-> DotTxt, field_name |-> None, format_spec |-> NoSpec]>>

Configs ==
    [file_template : {TemplateQuick, TemplateUnknown, TemplateBadSpec, TemplateSubdir},
     max_filename_length : {DefaultMaxFilenameLength},
     notifications : {TRUE}]

Modes == {"quick", "filename", "custom", "list", "info", "init_config"}

ArgSets ==
    [mode : Modes \ {"filename"}, filename : {<<>>}]
    \cup [mode : {"filename"}, filename : CustomNames]

Fresh ==
    [pc |-> "idle", args |-> [mode |-> "quick", filename |-> <<>>],
     text |-> <<>>, pasted |-> FALSE, dialog |-> "none", custom_filename |-> PyNone,
     filename |-> <<>>, original_path |-> NoPath, file_path |-> NoPath, counter |-> 0,
     success |-> FALSE, exit_code |-> -1, outcome |-> "", before |-> IdleFiles]

InitialFiles == UNION {[S -> {Old}] : S \in SUBSET {ATxt, A01Txt}}

InitialDirs == {{}, {<<<<"s">>>>}, {<<<<"s">>>>, <<A01Txt.name>>}}

Init ==
    /\ files \in InitialFiles
    /\ dirs \in InitialDirs
    /\ now = 0
    /\ config \in Configs
    /\ proc = [i \in Procs |-> Fresh]
    /\ runs = 0
    /\ fn_in = [called |-> FALSE] /\ fn_out = [called |-> FALSE]
    /\ cfg_file = [kind |-> "missing", value |-> <<>>] /\ cfg_out = [called |-> FALSE]

Deriver == <<fn_in, fn_out, cfg_file, cfg_out>>

\* sys.exit(0 if success else 1)
ExitStatus(success) == IF success THEN 0 ELSE 1

Exited(p, code, outcome) ==
    [p EXCEPT !.pc = "exited", !.exit_code = code, !.outcome = outcome]

\* save_clipboard returns success and main exits on it
Returned(p, success, outcome) ==
    [p EXCEPT !.pc = "exited", !.success = success, !.exit_code = ExitStatus(success),
              !.outcome = outcome]

\* parser.parse_args() accepts the command line
ParseArgs(i, a) ==
    /\ proc[i].pc = "idle"
    /\ runs < MaxRuns
    /\ runs' = runs + 1
    /\ proc' = [proc EXCEPT ![i] = [Fresh EXCEPT !.pc = "main", !.args = a]]
    /\ UNCHANGED <<files, dirs, now, config, Deriver>>

\* parser.parse_args() rejects the command line: argparse exits with 2
UsageError(i) ==
    /\ proc[i].pc = "idle"
    /\ runs < MaxRuns
    /\ runs' = runs + 1
    /\ proc' = [proc EXCEPT ![i] = Exited(Fresh, 2, "usage")]
    /\ UNCHANGED <<files, dirs, now, config, Deriver>>

\* --init-config: create_default_config() runs outside main's try block, so
\* what it raises is not caught: the interpreter prints the traceback
CreateDefaultConfig(i, r) ==
    /\ proc[i].pc = "main"
    /\ proc[i].args.mode = "init_config"
    /\ \/ r = "ok" /\ proc' = [proc EXCEPT ![i] = Exited(@, 0, "info_ok")]
       \/ r = "error" /\ proc' = [proc EXCEPT ![i] = Exited(@, 1, "error")]
       \/ /\ r = "interrupt"
          /\ \E status \in UncaughtInterruptStatus :
                 proc' = [proc EXCEPT ![i] = Exited(@, status, "interrupt")]
    /\ UNCHANGED <<files, dirs, now, config, runs, Deriver>>

\* saver = ClipboardSaver(args.config), inside main's try block
Construct(i, r) ==
    /\ proc[i].pc = "main"
    /\ proc[i].args.mode # "init_config"
    /\ \/ /\ r = "ok"
          /\ proc' = [proc EXCEPT ![i].pc =
                          IF proc[i].args.mode \in {"list", "info"} THEN "report" ELSE "save"]
       \/ r = "error" /\ proc' = [proc EXCEPT ![i] = Exited(@, 1, "error")]
       \/ r = "interrupt" /\ proc' = [proc EXCEPT ![i] = Exited(@, 1, "interrupt")]
    /\ UNCHANGED <<files, dirs, now, config, runs, Deriver>>

\* saver.list_saves(args.list) or saver.show_info(), then the end of main;
\* show_info formats the template with example_vars and raises what that raises
Report(i, r) ==
    /\ proc[i].pc = "report"
    /\ LET fails == /\ proc[i].args.mode = "info"
                    /\ Format(config.file_template, ExampleVars).exc # None
       IN  \/ r = "ok" /\ ~fails /\ proc' = [proc EXCEPT ![i] = Exited(@, 0, "info_ok")]
           \/ r = "ok" /\ fails /\ proc' = [proc EXCEPT ![i] = Exited(@, 1, "error")]
           \/ r = "error" /\ proc' = [proc EXCEPT ![i] = Exited(@, 1, "error")]
           \/ r = "interrupt" /\ proc' = [proc EXCEPT ![i] = Exited(@, 1, "interrupt")]
    /\ UNCHANGED <<files, dirs, now, config, runs, Deriver>>

\* lines 157-169: the filename, the candidate path and the loop's counter
Prepared(p, custom_filename) ==
    LET r == IF custom_filename # PyNone /\ custom_filename # <<>>
             THEN [exc |-> None, val |-> EnsureTxt(custom_filename)]
             ELSE create_filename(config, p.text, <<now, now, now, now>>)
    IN  IF r.exc # None
        THEN Returned([p EXCEPT !.custom_filename = custom_filename], FALSE, "error")
        ELSE [p EXCEPT !.pc = "resolve", !.custom_filename = custom_filename,
                       !.filename = r.val, !.file_path = PathJoin(r.val),
                       !.original_path = PathJoin(r.val), !.counter = 1]

\* pyperclip.paste() and what follows up to the dialog or the collision loop
Paste(i, t, r) ==
    /\ proc[i].pc = "save"
    /\ LET p == [proc[i] EXCEPT !.before = files]
           q == [p EXCEPT !.text = t, !.pasted = TRUE]
           custom == IF p.args.mode = "filename" THEN p.args.filename ELSE PyNone
       IN  \/ r = "PyperclipException"
              /\ proc' = [proc EXCEPT ![i] = Returned(p, FALSE, "clipboard_error")]
           \/ r = "interrupt" /\ proc' = [proc EXCEPT ![i] = Exited(p, 1, "interrupt")]
           \/ /\ r = "ok"
              /\ proc' = [proc EXCEPT ![i] =
                     IF IsBlank(t)
                     THEN Returned(q, FALSE, "empty")
                     ELSE IF p.args.mode = "custom"
                     THEN LET s == create_filename(config, t, <<now, now, now, now>>)
                          IN  IF s.exc # None
                              THEN Returned(q, FALSE, "error")
                              ELSE [q EXCEPT !.pc = "dialog", !.filename = s.val]
                     ELSE Prepared(q, custom)]
    /\ UNCHANGED <<files, dirs, now, config, runs, Deriver>>

\* show_filename_dialog(suggested_name): zenity's return code and output, or
\* subprocess.run raising (no zenity), or an interrupt while it is open
Dialog(i, r, returncode, stdout) ==
    /\ proc[i].pc = "dialog"
    /\ LET answer == IF r = "error" THEN PyNone ELSE DialogResult(returncode, stdout)
           p == [proc[i] EXCEPT !.dialog = IF r = "error" THEN "failed"
                                           ELSE IF returncode = 0 THEN "confirmed"
                                           ELSE "cancelled"]
       IN  \/ r = "interrupt" /\ proc' = [proc EXCEPT ![i] = Exited(proc[i], 1, "interrupt")]
           \/ /\ r \in {"ok", "error"}
              /\ proc' = [proc EXCEPT ![i] =
                     IF answer = PyNone
                     THEN Returned(p, FALSE, "cancelled")
                     ELSE Prepared(p, answer)]
    /\ UNCHANGED <<files, dirs, now, config, runs, Deriver>>

\* one test of the while condition, and the loop's body when it holds
Resolve(i) ==
    /\ proc[i].pc = "resolve"
    /\ LET p == proc[i]
       IN  proc' = [proc EXCEPT ![i] =
               IF ContinueLoop(p.original_path, p.file_path)
               THEN [p EXCEPT !.file_path = NextCandidate(p.original_path, p.file_path, p.counter),
                              !.counter = NextCounter(p.counter)]
               ELSE [p EXCEPT !.pc = "open"]]
    /\ UNCHANGED <<files, dirs, now, config, runs, Deriver>>

\* open(file_path, 'w'): creates the file or truncates it; raises when the
\* parent directory is missing or the path is a directory
Open(i) ==
    /\ proc[i].pc = "open"
    /\ LET path == proc[i].file_path
       IN  IF \/ ~ParentExists(path)
              \/ (path.parent \o <<path.name>>) \in dirs
              \/ (OpenIsExclusive /\ path \in DOMAIN files)
           THEN /\ proc' = [proc EXCEPT ![i] = Returned(@, FALSE, "write_error")]
                /\ UNCHANGED files
           ELSE /\ files' = [q \in DOMAIN files \cup {path} |-> IF q = path THEN <<>> ELSE files[q]]
                /\ proc' = [proc EXCEPT ![i].pc = "flush"]
    /\ UNCHANGED <<dirs, now, config, runs, Deriver>>

\* open raises for a reason of the environment (permissions)
OpenError(i) ==
    /\ proc[i].pc = "open"
    /\ proc' = [proc EXCEPT ![i] = Returned(@, FALSE, "write_error")]
    /\ UNCHANGED <<files, dirs, now, config, runs, Deriver>>

\* f.write(text) and the close: the text goes to offset 0 of the file;
\* save_clipboard returns True
Flush(i) ==
    /\ proc[i].pc = "flush"
    /\ files' = [files EXCEPT ![proc[i].file_path] = WriteAt0(@, proc[i].text)]
    /\ proc' = [proc EXCEPT ![i] = Returned(@, TRUE, "saved")]
    /\ UNCHANGED <<dirs, now, config, runs, Deriver>>

\* the write fails (disk full) after n characters
WriteError(i, n) ==
    /\ proc[i].pc = "flush"
    /\ n < Len(proc[i].text)
    /\ files' = [files EXCEPT ![proc[i].file_path] = WriteAt0(@, SubSeq(proc[i].text, 1, n))]
    /\ proc' = [proc EXCEPT ![i] = Returned(@, FALSE, "write_error")]
    /\ UNCHANGED <<dirs, now, config, runs, Deriver>>

\* the process is gone; the next invocation starts afresh
Reap(i) ==
    /\ proc[i].pc = "exited"
    /\ proc' = [proc EXCEPT ![i] = Fresh]
    /\ UNCHANGED <<files, dirs, now, config, runs, Deriver>>

\* the clock advances, within the window
Tick ==
    /\ now + 1 \in ClockWindow
    /\ now' = now + 1
    /\ UNCHANGED <<files, dirs, config, proc, runs, Deriver>>

Outcomes == {"ok", "error", "interrupt"}

\* the steps of an invocation that saves
SaveStep(i, texts) ==
    \/ \E r \in Outcomes : Construct(i, r)
    \/ \E t \in texts, r \in {"ok", "PyperclipException", "interrupt"} : Paste(i, t, r)
    \/ Resolve(i)
    \/ Open(i)
    \/ OpenError(i)
    \/ Flush(i)
    \/ \E n \in 0..1 : WriteError(i, n)
    \/ Reap(i)

Step(i) ==
    \/ \E a \in ArgSets : ParseArgs(i, a)
    \/ UsageError(i)
    \/ \E r \in Outcomes : CreateDefaultConfig(i, r)
    \/ \E r \in Outcomes : Report(i, r)
    \/ \E r \in Outcomes, returncode \in {0, 1}, stdout \in DialogOutputs :
           Dialog(i, r, returncode, stdout)
    \/ SaveStep(i, ClipTexts)

\* invocations run one after another
Next == Step(1) \/ Tick

Spec == Init /\ [][Next]_vars

\* two invocations at the same time, each a quick save or a save as "a",
\* under the quick template and with no subdirectory
ConcurrentArgs ==
    [mode : {"quick"}, filename : {<<>>}] \cup [mode : {"filename"}, filename : {NameA}]

InitConcurrent ==
    /\ Init
    /\ config.file_template = TemplateQuick
    /\ dirs = {}

NextConcurrent ==
    \E i \in Procs : (\E a \in ConcurrentArgs : ParseArgs(i, a)) \/ SaveStep(i, ConcurrentTexts)

SpecConcurrent == InitConcurrent /\ [][NextConcurrent]_vars

\* invocations one after another under the quick template
InitLive ==
    /\ Init
    /\ config.file_template = TemplateQuick

\* the running invocation is scheduled until it exits
SpecLive ==
    /\ InitLive
    /\ [][Next]_vars
    /\ WF_vars(Resolve(1))
    /\ WF_vars(Open(1) \/ OpenError(1))
    /\ WF_vars(Flush(1) \/ WriteError(1, 0) \/ WriteError(1, 1))

-----------------------------------------------------------------------------
(* The claims.                                                             *)

\* C1: with invocations one after another, the path the collision loop
\* chose does not exist when it is opened, and every file that was there
\* when save_clipboard was entered is still there with the same content.
C1_NoOverwrite ==
    \A i \in Procs :
        /\ proc[i].pc = "open" => ~Exists(proc[i].file_path)
        /\ \A p \in DOMAIN proc[i].before :
               p \in DOMAIN files /\ files[p] = proc[i].before[p]

\* a save whose candidate existed wrote its text to another, new path
C1_Witness ==
    \E i \in Procs :
        /\ proc[i].pc = "exited" /\ proc[i].success
        /\ proc[i].original_path \in DOMAIN proc[i].before
        /\ proc[i].file_path \notin DOMAIN proc[i].before
        /\ files[proc[i].file_path] = proc[i].text
        /\ files[proc[i].original_path] = Old

\* k as two decimal digits, for k below 100
TwoDigits(k) == <<Digit[(k \div 10) + 1], Digit[(k % 10) + 1]>>

\* <stem>_<kk><ext> beside the original path
Suffixed(path, k) ==
    [parent |-> path.parent, name |-> Stem(path) \o <<"_">> \o TwoDigits(k) \o Suffix(path)]

\* C2: the collision loop returns the candidate itself when it does not
\* exist, and otherwise <stem>_<kk><ext>, built from the original stem, for
\* the smallest k >= 1 whose path does not exist; after a.txt comes a_01.txt.
C2_CollisionLoop ==
    \A i \in Procs :
        proc[i].pc = "open" =>
            LET o == proc[i].original_path
                top == Cardinality(DOMAIN files) + Cardinality(dirs) + 1
            IN  /\ Stem(o) \o Suffix(o) = o.name
                /\ ~Exists(o) => proc[i].file_path = o
                /\ Exists(o) =>
                       \E k \in 1..top :
                           /\ proc[i].file_path = Suffixed(o, k)
                           /\ ~Exists(Suffixed(o, k))
                           /\ \A j \in 1..(k - 1) : Exists(Suffixed(o, j))
                /\ (o = ATxt /\ Exists(ATxt) /\ ~Exists(A01Txt)) => proc[i].file_path = A01Txt
                /\ (o = ATxt /\ Exists(ATxt) /\ Exists(A01Txt) /\ ~Exists(A02Txt)) =>
                       proc[i].file_path = A02Txt

\* a.txt was written by an earlier save, and the next save of a.txt is about
\* to open a_01.txt
C2_Witness ==
    \E i \in Procs :
        /\ proc[i].pc = "open"
        /\ proc[i].original_path = ATxt
        /\ proc[i].file_path = A01Txt
        /\ ATxt \in DOMAIN files
        /\ files[ATxt] = <<"h", "i">>

\* C3: open(file_path, 'w') never refuses a path that came to exist after
\* the existence check: it truncates the other invocation's file, and the
\* invocation goes on to write.  No lock stands between the check and the
\* write.
C3_OpenNeverRefuses ==
    [][\A i \in Procs :
           (Open(i) /\ proc[i].file_path \in DOMAIN files) =>
               /\ proc'[i].pc = "flush"
               /\ files'[proc[i].file_path] = <<>>]_vars

\* both invocations chose the same path with the same suffix, both wrote and
\* both returned True, and only one of the two texts is on disk
C3_Witness ==
    \E i \in Procs, j \in Procs :
        /\ i # j
        /\ proc[i].pc = "exited" /\ proc[i].success
        /\ proc[j].pc = "exited" /\ proc[j].success
        /\ proc[i].file_path = proc[j].file_path
        /\ proc[i].counter = proc[j].counter
        /\ proc[i].counter > 1
        /\ proc[i].text # proc[j].text
        /\ files[proc[i].file_path] = proc[i].text
        /\ \A q \in DOMAIN files : files[q] # proc[j].text

\* every character is whitespace
OnlyWhitespace(text) == \A k \in 1..Len(text) : text[k] \in Whitespace

\* C4: when the clipboard text is empty or whitespace-only, or the dialog
\* is cancelled, save_clipboard returns False and the files are those of
\* before the call, with the same contents.
C4_NothingSaved ==
    \A i \in Procs :
        (/\ proc[i].pc = "exited"
         /\ \/ proc[i].pasted /\ OnlyWhitespace(proc[i].text)
            \/ proc[i].dialog = "cancelled") =>
            /\ ~proc[i].success
            /\ proc[i].exit_code = 1
            /\ files = proc[i].before

\* a whitespace-only clipboard, with files in the save directory
C4_Witness ==
    \E i \in Procs :
        /\ proc[i].pc = "exited"
        /\ proc[i].pasted
        /\ proc[i].text = <<" ", "\n">>
        /\ DOMAIN files # {}
        /\ files = proc[i].before

\* C6: an invocation that saved or completed an informational command
\* exits with 0; one whose save failed, whose dialog was cancelled, or that
\* met an unexpected error or an interrupt exits with 1.
C6_ExitCodes ==
    \A i \in Procs :
        proc[i].pc = "exited" =>
            /\ proc[i].outcome \in {"saved", "info_ok"} => proc[i].exit_code = 0
            /\ proc[i].outcome \in {"empty", "clipboard_error", "write_error", "cancelled",
                                    "error", "interrupt"} => proc[i].exit_code = 1

\* C7: when the parent directory of the resolved path is missing, the write
\* step creates it and goes on to write the content.
C7_ParentCreated ==
    [][\A i \in Procs :
           (Open(i) /\ ~ParentExists(proc[i].file_path)) =>
               /\ proc[i].file_path.parent \in dirs'
               /\ proc'[i].pc = "flush"]_vars

\* C10: with invocations one after another, the collision loop ends and the
\* invocation reaches the write step, and from there its exit.
C10_LoopTerminates ==
    /\ (proc[1].pc = "resolve") ~> (proc[1].pc = "open")
    /\ (proc[1].pc = "open") ~> (proc[1].pc = "exited")

\* the loop ran at least twice before the write step
C10_Witness ==
    /\ proc[1].pc = "open"
    /\ proc[1].counter = 3

====
